---- MODULE Spec2Model ----
(***************************************************************************)
(* MiniFS: an in-memory filesystem-like tree (lafkpages/minifs).           *)
(*                                                                         *)
(* A JavaScript string is a sequence of one-character strings, so that     *)
(* String.prototype.split can be computed; a path segment and a child name *)
(* are such strings.  An object used as a mapping (Directory.content) is   *)
(* the sequence of its own properties in insertion order, each a           *)
(* [key, entry] pair.  Names are drawn from strings that are not inherited *)
(* properties of Object.prototype, so `k in obj` is own-key membership.    *)
(***************************************************************************)
EXTENDS Integers, Sequences, FiniteSets, TLC

VARIABLES files, preferErrors

vars == <<files, preferErrors>>

----------------------------------------------------------------------------
(* Bounds *)

\* longest pre-segmented path handed to an operation
MaxPathLen == 2

\* most entries the tree may hold below the root
MaxEntries == 2

----------------------------------------------------------------------------
(* Input values *)

sEmpty == <<>>
sA == <<"a">>
sB == <<"b">>

\* segment strings used in pre-segmented paths
SegNames == {sA, sB}

\* string paths, as character sequences: "", "a", "a/b", "/a", "a/", "a//b"
StrInputs ==
  { sEmpty, sA, <<"a", "/", "b">>, <<"/", "a">>, <<"a", "/">>,
    <<"a", "/", "/", "b">> }

RECURSIVE SeqsUpTo(_, _)
SeqsUpTo(S, n) ==
  IF n = 0 THEN {<<>>}
  ELSE LET shorter == SeqsUpTo(S, n - 1)
       IN shorter \cup {Append(s, x) : s \in {t \in shorter : Len(t) = n - 1}, x \in S}

SegInputs == SeqsUpTo(SegNames, MaxPathLen)

\* a Path is a string or an array of strings (PathSegments)
Paths ==
  {[isString |-> TRUE, v |-> s] : s \in StrInputs}
    \cup {[isString |-> FALSE, v |-> s] : s \in SegInputs}

rootPath == [isString |-> FALSE, v |-> <<>>]

Undefined == "undefined"
Contents == {"c1", "c2"}
DefaultData == "{}"

\* what a WriteCallback does to the File it is handed
Keep == "keep"
Callbacks ==
  { [content |-> Keep, data |-> "d1"],
    [content |-> "c2", data |-> "d1"] }

----------------------------------------------------------------------------
(* Node model *)

\* faulty variant: the constructor does not keep the content it is given
File_NoContent(name, content) ==
  [type |-> "File", name |-> name, content |-> Undefined, data |-> DefaultData]

File(name, content) ==
  [type |-> "File", name |-> name, content |-> content, data |-> DefaultData]

Directory == [type |-> "Directory", content |-> <<>>, data |-> DefaultData]

\* faulty variant: no key is ever found
Has_Nothing(obj, k) == FALSE

\* k in obj
Has(obj, k) == \E i \in 1..Len(obj) : obj[i].key = k

\* obj[k]
Get(obj, k) == obj[CHOOSE i \in 1..Len(obj) : obj[i].key = k].entry

\* obj[k] = e
Put(obj, k, e) ==
  IF Has(obj, k)
  THEN [i \in 1..Len(obj) |-> IF obj[i].key = k THEN [key |-> k, entry |-> e] ELSE obj[i]]
  ELSE Append(obj, [key |-> k, entry |-> e])

\* faulty variant: the property stays
Delete_Nothing(obj, k) == obj

\* faulty variant: every property goes
Delete_Everything(obj, k) == <<>>

\* delete obj[k]
Delete(obj, k) == SelectSeq(obj, LAMBDA p : p.key # k)

\* faulty variant: the last property is left out
Keys_LastLeftOut(obj) == [i \in 1..(Len(obj) - 1) |-> obj[i].key]

\* Object.keys(obj)
Keys(obj) == [i \in 1..Len(obj) |-> obj[i].key]

----------------------------------------------------------------------------
(* Path normalization *)

\* index of the first "/" in s, 0 if there is none
FirstSlash(s) ==
  IF \E i \in 1..Len(s) : s[i] = "/"
  THEN CHOOSE i \in 1..Len(s) : s[i] = "/" /\ \A j \in 1..(i - 1) : s[j] # "/"
  ELSE 0

\* s.split("/")
RECURSIVE Split(_)
Split(s) ==
  LET i == FirstSlash(s)
  IN IF i = 0 THEN <<s>>
     ELSE <<SubSeq(s, 1, i - 1)>> \o Split(SubSeq(s, i + 1, Len(s)))

\* faulty variant: the root path [] is taken for the one empty segment [""]
pathAsSegments_RootAsEmptyName(path) ==
  IF path.isString THEN Split(path.v)
  ELSE IF path.v = <<>> THEN <<sEmpty>> ELSE path.v

\* faulty variant: empty segments of a string path are dropped
pathAsSegments_EmptyDropped(path) ==
  IF path.isString
  THEN SelectSeq(Split(path.v), LAMBDA seg : seg # <<>>)
  ELSE path.v

\* faulty variant: the empty string is taken for the root path
pathAsSegments_EmptyStringIsRoot(path) ==
  IF path.isString
  THEN IF path.v = <<>> THEN <<>> ELSE Split(path.v)
  ELSE path.v

pathAsSegments(path) == IF path.isString THEN Split(path.v) ELSE path.v

----------------------------------------------------------------------------
(* Outcomes of a call *)

Returned(kind, val) == [kind |-> kind, val |-> val]

\* faulty variant: preferErrors is ignored
Failed_NeverThrows(pe, msg, sentinel) == sentinel

\* if (this.preferErrors) throw new Error(msg); return sentinel;
Failed(pe, msg, sentinel) ==
  IF pe THEN [kind |-> "raise", val |-> msg] ELSE sentinel

False == Returned("bool", FALSE)
True == Returned("bool", TRUE)
Null == Returned("null", "null")

----------------------------------------------------------------------------
(* MiniFS operations.  Each takes the root Directory (this.files), the     *)
(* arguments and this.preferErrors, and yields the root after the call     *)
(* together with the call's outcome.  A loop over the segments that holds  *)
(* `dir` by reference is a recursion that rebuilds the parent around the   *)
(* mutated child.                                                          *)

\* createDirectory: the loop body from segment path[1] in directory dir
RECURSIVE createDirectoryIn(_, _, _, _)
createDirectoryIn(dir, path, recursive, pe) ==
  IF path = <<>> THEN [dir |-> dir, out |-> True]
  ELSE
    LET pathSegment == Head(path)
        missing == ~Has(dir.content, pathSegment)
    IN IF missing /\ ~recursive
       THEN [dir |-> dir, out |-> Failed(pe, "does not exist", False)]
       ELSE
         LET dir1 == IF missing
                     THEN [dir EXCEPT !.content = Put(@, pathSegment, Directory)]
                     ELSE dir
             nextEntry == Get(dir1.content, pathSegment)
         IN IF nextEntry.type = "File"
            THEN [dir |-> dir1, out |-> Failed(pe, "is a file", False)]
            ELSE
              LET rest == createDirectoryIn(nextEntry, Tail(path), recursive, pe)
              IN [dir |-> [dir1 EXCEPT !.content = Put(@, pathSegment, rest.dir)],
                  out |-> rest.out]

\* faulty variant: missing directories are never created
createDirectory_NeverRecursive(root, path, recursive, pe) ==
  createDirectoryIn(root, pathAsSegments(path), FALSE, pe)

\* faulty variant: a Directory that is already there is refused
createDirectory_ExistingRefused(root, path, recursive, pe) ==
  IF /\ pathAsSegments(path) # <<>>
     /\ createDirectoryIn(root, pathAsSegments(path), FALSE, FALSE).out.val
  THEN [dir |-> root, out |-> Failed(pe, "exists", False)]
  ELSE createDirectoryIn(root, pathAsSegments(path), recursive, pe)

\* faulty variant: a File met on the way is not reported
createDirectory_FileAccepted(root, path, recursive, pe) ==
  LET strict == createDirectoryIn(root, pathAsSegments(path), recursive, TRUE)
  IN IF strict.out.kind = "raise" /\ strict.out.val = "is a file"
     THEN [dir |-> strict.dir, out |-> True]
     ELSE createDirectoryIn(root, pathAsSegments(path), recursive, pe)

\* faulty variant: the recursive option is taken as set
createDirectory_AlwaysRecursive(root, path, recursive, pe) ==
  createDirectoryIn(root, pathAsSegments(path), TRUE, pe)

createDirectory(root, path, recursive, pe) ==
  createDirectoryIn(root, pathAsSegments(path), recursive, pe)

\* readEntry: the loop from `entry` over the remaining segments
RECURSIVE readEntryIn(_, _, _)
readEntryIn(entry, path, pe) ==
  IF path = <<>> THEN Returned("entry", entry)
  ELSE IF entry.type = "File"
  THEN Failed(pe, "is a file", Null)
  ELSE IF ~Has(entry.content, Head(path))
  THEN Failed(pe, "does not exist", Null)
  ELSE readEntryIn(Get(entry.content, Head(path)), Tail(path), pe)

readEntry(root, path, pe) == readEntryIn(root, pathAsSegments(path), pe)

\* faulty variant: a File is answered like a Directory without entries
readDirectory_KindNotTested(root, path, returnEntry, pe) ==
  LET entry == readEntry(root, path, pe)
  IN IF entry.kind = "raise" THEN entry
     ELSE IF entry.kind = "entry"
     THEN IF returnEntry THEN entry
          ELSE IF entry.val.type = "File" THEN Returned("keys", <<>>)
          ELSE Returned("keys", Keys(entry.val.content))
     ELSE Failed(pe, "does not exist", Null)

\* faulty variant: a Directory without children counts as absent
readDirectory_EmptyIsMissing(root, path, returnEntry, pe) ==
  LET entry == readEntry(root, path, pe)
  IN IF entry.kind = "raise" THEN entry
     ELSE IF entry.kind = "entry" /\ entry.val.type = "File"
     THEN Failed(pe, "is a file", Null)
     ELSE IF entry.kind = "entry" /\ entry.val.content # <<>>
     THEN IF returnEntry THEN entry ELSE Returned("keys", Keys(entry.val.content))
     ELSE Failed(pe, "does not exist", Null)

readDirectory(root, path, returnEntry, pe) ==
  LET entry == readEntry(root, path, pe)
  IN IF entry.kind = "raise" THEN entry
     ELSE IF entry.kind = "entry" /\ entry.val.type = "File"
     THEN Failed(pe, "is a file", Null)
     ELSE IF entry.kind = "entry"
     THEN IF returnEntry THEN entry ELSE Returned("keys", Keys(entry.val.content))
     ELSE Failed(pe, "does not exist", Null)

\* faulty variant: a File is read whether or not it has a content
readFile_ContentNotTested(root, path, returnEntry, pe) ==
  LET entry == readEntry(root, path, pe)
  IN IF entry.kind = "raise" THEN entry
     ELSE IF entry.kind = "entry" /\ entry.val.type = "File"
     THEN IF returnEntry THEN entry
          ELSE Returned("content", entry.val.content)
     ELSE IF entry.kind = "null"
     THEN Failed(pe, "does not exist", Null)
     ELSE Failed(pe, "is a directory", Null)

readFile(root, path, returnEntry, pe) ==
  LET entry == readEntry(root, path, pe)
  IN IF entry.kind = "raise" THEN entry
     ELSE IF entry.kind = "entry" /\ entry.val.type = "File"
     THEN IF entry.val.content = Undefined
          THEN Failed(pe, "has no content", Null)
          ELSE IF returnEntry THEN entry
               ELSE Returned("content", entry.val.content)
     ELSE IF entry.kind = "null"
     THEN Failed(pe, "does not exist", Null)
     ELSE Failed(pe, "is a directory", Null)

\* faulty variant: i == path.length, which no index satisfies
isLastSegment_Never(path) == FALSE

\* const isLastSegment = i == path.length - 1, path being what is left to walk
isLastSegment(path) == Len(path) = 1

\* writeFile: the loop body from segment path[1] in directory dir
RECURSIVE writeFileIn(_, _, _, _, _)
writeFileIn(dir, path, content, recursive, pe) ==
  IF path = <<>> THEN [dir |-> dir, out |-> True]
  ELSE
    LET pathSegment == Head(path)
        missing == ~Has(dir.content, pathSegment)
    IN IF missing /\ ~recursive
       THEN [dir |-> dir, out |-> Failed(pe, "does not exist", False)]
       ELSE IF missing /\ isLastSegment(path)
       THEN [dir |-> [dir EXCEPT !.content = Put(@, pathSegment, File(pathSegment, content))],
             out |-> True]
       ELSE
         LET dir1 == IF missing
                     THEN [dir EXCEPT !.content = Put(@, pathSegment, Directory)]
                     ELSE dir
             nextEntry == Get(dir1.content, pathSegment)
         IN IF nextEntry.type = "File"
            THEN [dir |-> dir1, out |-> Failed(pe, "is a file", False)]
            ELSE
              LET rest == writeFileIn(nextEntry, Tail(path), content, recursive, pe)
              IN [dir |-> [dir1 EXCEPT !.content = Put(@, pathSegment, rest.dir)],
                  out |-> rest.out]

\* faulty variant: the File is stored at a one-segment path whatever is there
writeFile_ReplacesExisting(root, path, content, recursive, pe) ==
  IF Len(pathAsSegments(path)) = 1
  THEN writeFileIn([root EXCEPT !.content = Delete(@, pathAsSegments(path)[1])],
                   pathAsSegments(path), content, TRUE, pe)
  ELSE writeFileIn(root, pathAsSegments(path), content, recursive, pe)

\* faulty variant: a write without content is refused once the parent
\* directories are there
writeFile_NoContentRefusedLate(root, path, content, recursive, pe) ==
  IF content = Undefined /\ pathAsSegments(path) # <<>>
  THEN [dir |-> createDirectoryIn(root,
                  SubSeq(pathAsSegments(path), 1, Len(pathAsSegments(path)) - 1),
                  recursive, FALSE).dir,
        out |-> Failed(pe, "has no content", False)]
  ELSE writeFileIn(root, pathAsSegments(path), content, recursive, pe)

\* faulty variant: with preferErrors no missing entry is created
writeFile_StrictNeverCreates(root, path, content, recursive, pe) ==
  writeFileIn(root, pathAsSegments(path), content, recursive /\ ~pe, pe)

writeFile(root, path, content, recursive, pe) ==
  writeFileIn(root, pathAsSegments(path), content, recursive, pe)

\* callback(file)
Call(callback, file) ==
  [file EXCEPT !.content = IF callback.content = Keep THEN @ ELSE callback.content,
               !.data = IF callback.data = Keep THEN @ ELSE callback.data]

\* _writeFile: the loop body from segment path[1] in directory dir.  The
\* branch that hands an existing entry to the callback sits inside
\* `if (!(pathSegment in dir.content))` and is kept with its own test.
RECURSIVE writeFileWithCallbackIn(_, _, _, _, _)
writeFileWithCallbackIn(dir, path, callback, recursive, pe) ==
  IF path = <<>> THEN [dir |-> dir, out |-> True]
  ELSE
    LET pathSegment == Head(path)
        missing == ~Has(dir.content, pathSegment)
    IN IF missing /\ ~recursive
       THEN [dir |-> dir, out |-> Failed(pe, "does not exist", False)]
       ELSE IF missing /\ isLastSegment(path)
       THEN IF Has(dir.content, pathSegment)
            THEN LET entry == Get(dir.content, pathSegment)
                 IN IF entry.type = "File"
                    THEN [dir |-> [dir EXCEPT !.content = Put(@, pathSegment, Call(callback, entry))],
                          out |-> True]
                    ELSE [dir |-> dir, out |-> Failed(pe, "is a directory", False)]
            ELSE [dir |-> [dir EXCEPT !.content =
                             Put(@, pathSegment, Call(callback, File(pathSegment, Undefined)))],
                  out |-> True]
       ELSE
         LET dir1 == IF missing
                     THEN [dir EXCEPT !.content = Put(@, pathSegment, Directory)]
                     ELSE dir
             nextEntry == Get(dir1.content, pathSegment)
         IN IF nextEntry.type = "File"
            THEN [dir |-> dir1, out |-> Failed(pe, "is a file", False)]
            ELSE
              LET rest == writeFileWithCallbackIn(nextEntry, Tail(path), callback, recursive, pe)
              IN [dir |-> [dir1 EXCEPT !.content = Put(@, pathSegment, rest.dir)],
                  out |-> rest.out]

writeFileWithCallback(root, path, callback, recursive, pe) ==
  writeFileWithCallbackIn(root, pathAsSegments(path), callback, recursive, pe)

\* remove: the loop body from segment path[1] in directory dir
RECURSIVE removeIn(_, _, _)
removeIn(dir, path, pe) ==
  IF path = <<>> THEN [dir |-> dir, out |-> True]
  ELSE
    LET pathSegment == Head(path)
    IN IF ~Has(dir.content, pathSegment)
       THEN [dir |-> dir, out |-> Failed(pe, "does not exist", False)]
       ELSE
         LET nextEntry == Get(dir.content, pathSegment)
         IN IF nextEntry.type = "File"
            THEN [dir |-> dir, out |-> Failed(pe, "is a file", False)]
            ELSE IF isLastSegment(path)
            THEN [dir |-> [dir EXCEPT !.content = Delete(@, pathSegment)], out |-> True]
            ELSE
              LET rest == removeIn(nextEntry, Tail(path), pe)
              IN [dir |-> [dir EXCEPT !.content = Put(@, pathSegment, rest.dir)],
                  out |-> rest.out]

\* faulty variant: removing the empty path empties the store
remove_RootEmptied(root, path, pe) ==
  IF pathAsSegments(path) = <<>>
  THEN [dir |-> Directory, out |-> True]
  ELSE removeIn(root, pathAsSegments(path), pe)

\* faulty variant: removing what is not there counts as done
remove_AbsentIsDone(root, path, pe) ==
  LET strict == removeIn(root, pathAsSegments(path), TRUE)
  IN IF strict.out.kind = "raise" /\ strict.out.val = "does not exist"
     THEN [dir |-> root, out |-> True]
     ELSE removeIn(root, pathAsSegments(path), pe)

\* faulty variant: removing the empty path leaves the store without a root
remove_RootDetached(root, path, pe) ==
  IF pathAsSegments(path) = <<>>
  THEN [dir |-> [type |-> Undefined], out |-> True]
  ELSE removeIn(root, pathAsSegments(path), pe)

remove(root, path, pe) == removeIn(root, pathAsSegments(path), pe)

\* walk(dir, path): the [entryPath, entry] pairs the generator yields
RECURSIVE walk(_, _)
RECURSIVE walkFrom(_, _, _)
walkFrom(dir, path, i) ==
  IF i > Len(dir.content) THEN <<>>
  ELSE
    LET name == dir.content[i].key
        entry == dir.content[i].entry
        entryPath == Append(path, name)
    IN <<[path |-> entryPath, entry |-> entry]>>
         \o (IF entry.type = "Directory" THEN walk(entry, entryPath) ELSE <<>>)
         \o walkFrom(dir, path, i + 1)

\* faulty variant: the first entry of each directory is passed over
walk_SkipFirst(dir, path) == walkFrom(dir, path, 2)

walk(dir, path) == walkFrom(dir, path, 1)

---------------------------------------------------------------------------------------------------------------------------------------------------
(* The store as a state machine: one step is one call on the MiniFS.  The  *)
(* state is what the object holds, this.files and this.preferErrors; what  *)
(* a call returns or throws is the `out` of its operator.                  *)

\* number of entries below dir
Entries(dir) == Len(walk(dir, <<>>))

Outcome(out) == out.kind \in {"bool", "null", "raise", "content", "keys", "entry"}

Init ==
  /\ files = Directory
  /\ preferErrors \in BOOLEAN

CreateDirectory ==
  \E path \in Paths, recursive \in BOOLEAN :
    LET r == createDirectory(files, path, recursive, preferErrors)
    IN /\ Entries(r.dir) <= MaxEntries
       /\ files' = r.dir
       /\ UNCHANGED preferErrors

\* faulty variant: the path is resolved as createDirectory resolves it
ReadDirectory_CreatesMissing ==
  \E path \in Paths, returnEntry \in BOOLEAN :
    LET r == createDirectory(files, path, TRUE, preferErrors)
    IN /\ Entries(r.dir) <= MaxEntries
       /\ Outcome(readDirectory(r.dir, path, returnEntry, preferErrors))
       /\ files' = r.dir
       /\ UNCHANGED preferErrors

ReadDirectory ==
  \E path \in Paths, returnEntry \in BOOLEAN :
    /\ Outcome(readDirectory(files, path, returnEntry, preferErrors))
    /\ UNCHANGED <<files, preferErrors>>

ReadFile ==
  \E path \in Paths, returnEntry \in BOOLEAN :
    /\ Outcome(readFile(files, path, returnEntry, preferErrors))
    /\ UNCHANGED <<files, preferErrors>>

WriteFile ==
  \E path \in Paths, content \in Contents \cup {Undefined}, recursive \in BOOLEAN :
    LET r == writeFile(files, path, content, recursive, preferErrors)
    IN /\ Entries(r.dir) <= MaxEntries
       /\ files' = r.dir
       /\ UNCHANGED preferErrors

WriteFileWithCallback ==
  \E path \in Paths, callback \in Callbacks, recursive \in BOOLEAN :
    LET r == writeFileWithCallback(files, path, callback, recursive, preferErrors)
    IN /\ Entries(r.dir) <= MaxEntries
       /\ files' = r.dir
       /\ UNCHANGED preferErrors

Remove ==
  \E path \in Paths :
    LET r == remove(files, path, preferErrors)
    IN /\ files' = r.dir
       /\ UNCHANGED preferErrors

Walk ==
  /\ Len(walk(files, <<>>)) >= 0
  /\ UNCHANGED <<files, preferErrors>>

Next ==
  \/ CreateDirectory
  \/ ReadDirectory
  \/ ReadFile
  \/ WriteFile
  \/ WriteFileWithCallback
  \/ Remove
  \/ Walk

Spec == Init /\ [][Next]_vars

----------------------------------------------------------------------------
(* Vocabulary of the properties *)

\* the entry the segments lead to from dir, as <<entry>>, or <<>> if none
RECURSIVE Lookup(_, _)
Lookup(dir, segs) ==
  IF segs = <<>> THEN <<dir>>
  ELSE IF dir.type = "File" THEN <<>>
  ELSE IF \A i \in 1..Len(dir.content) : dir.content[i].key # Head(segs) THEN <<>>
  ELSE Lookup(dir.content[CHOOSE i \in 1..Len(dir.content) :
                            dir.content[i].key = Head(segs)].entry, Tail(segs))

Resolves(dir, segs) == Lookup(dir, segs) # <<>>
IsFileAt(dir, segs) == Resolves(dir, segs) /\ Lookup(dir, segs)[1].type = "File"
IsDirectoryAt(dir, segs) == Resolves(dir, segs) /\ Lookup(dir, segs)[1].type = "Directory"

Prefix(segs, k) == SubSeq(segs, 1, k)
IsPrefixOf(p, q) == Len(p) <= Len(q) /\ Prefix(q, Len(p)) = p

\* no proper prefix of segs is a File
NoFileAbove(dir, segs) ==
  \A k \in 0..(Len(segs) - 1) : ~IsFileAt(dir, Prefix(segs, k))

\* segs names nothing yet and could be created
Fresh(dir, segs) == segs # <<>> /\ ~Resolves(dir, segs) /\ NoFileAbove(dir, segs)

\* the paths that resolve in dir, the root path included
ResolvingPaths(dir) ==
  {<<>>} \cup {walk(dir, <<>>)[i].path : i \in 1..Len(walk(dir, <<>>))}

IsTrue(out) == out.kind = "bool" /\ out.val
IsFalse(out) == out.kind = "bool" /\ ~out.val
IsNull(out) == out.kind = "null"
IsRaise(out) == out.kind = "raise"
IsContent(out, c) == out.kind = "content" /\ out.val = c
IsKeys(out, ks) == out.kind = "keys" /\ out.val = ks
IsEntry(out, e) == out.kind = "entry" /\ out.val = e

\* the failure a mode reports: the sentinel, or an exception
FailsPerMode(out, pe) == IF pe THEN IsRaise(out) ELSE IsNull(out) \/ IsFalse(out)
NotFoundPerMode(out, pe) ==
  IF pe THEN IsRaise(out) /\ out.val = "does not exist" ELSE IsNull(out)

AsString(chars) == [isString |-> TRUE, v |-> chars]
AsSegments(segs) == [isString |-> FALSE, v |-> segs]

----------------------------------------------------------------------------
(* Properties *)

\* C1: in every reachable state, writing a defined content C to a fresh
\* non-empty path P (P does not resolve, no proper prefix is a File) returns
\* true, and readFile(P) on the resulting store returns exactly C.
C1_RoundTripFreshPath ==
  \A path \in Paths, content \in Contents :
    Fresh(files, pathAsSegments(path)) =>
      LET r == writeFile(files, path, content, TRUE, preferErrors)
      IN /\ IsTrue(r.out)
         /\ IsContent(readFile(r.dir, path, FALSE, preferErrors), content)

\* a populated store in which a fresh two-segment path is written and read back
C1_Witness ==
  \E path \in Paths, content \in Contents :
    /\ files.content # <<>>
    /\ Len(pathAsSegments(path)) = 2
    /\ Fresh(files, pathAsSegments(path))
    /\ LET r == writeFile(files, path, content, TRUE, preferErrors)
       IN /\ IsTrue(r.out)
          /\ IsContent(readFile(r.dir, path, FALSE, preferErrors), content)

\* C2: when P already resolves to a File, writeFile(P, C2) returns true, a
\* following readFile(P) returns C2 and the File's data is unchanged; and
\* writeFileWithCallback(P, f) returns true and leaves at P the existing File
\* with f applied to it.
C2_OverwriteInPlace ==
  \A path \in Paths :
    IsFileAt(files, pathAsSegments(path)) =>
      LET segs == pathAsSegments(path)
          before == Lookup(files, segs)[1]
      IN /\ \A content \in Contents :
              LET r == writeFile(files, path, content, TRUE, preferErrors)
              IN /\ IsTrue(r.out)
                 /\ IsContent(readFile(r.dir, path, FALSE, preferErrors), content)
                 /\ IsFileAt(r.dir, segs)
                 /\ Lookup(r.dir, segs)[1].data = before.data
         /\ \A callback \in Callbacks :
              LET r == writeFileWithCallback(files, path, callback, TRUE, preferErrors)
              IN /\ IsTrue(r.out)
                 /\ IsFileAt(r.dir, segs)
                 /\ Lookup(r.dir, segs)[1] = Call(callback, before)

\* C3: when P resolves to a File, remove(P) returns true and afterwards P does
\* not resolve: readFile(P) reports not-found and the parent's listing no
\* longer holds P's final segment.
C3_RemoveDetachesFile ==
  \A path \in Paths :
    IsFileAt(files, pathAsSegments(path)) =>
      LET segs == pathAsSegments(path)
          parent == AsSegments(Prefix(segs, Len(segs) - 1))
          r == remove(files, path, preferErrors)
          listing == readDirectory(r.dir, parent, FALSE, preferErrors)
      IN /\ IsTrue(r.out)
         /\ ~Resolves(r.dir, segs)
         /\ NotFoundPerMode(readFile(r.dir, path, FALSE, preferErrors), preferErrors)
         /\ listing.kind = "keys"
         /\ \A i \in 1..Len(listing.val) : listing.val[i] # segs[Len(segs)]

\* C4 as stated: whenever remove(P) returns true, readDirectory and readFile
\* return null for P and for every path that has P as a prefix.
C4_RemovedPathsReturnNull ==
  \A path \in Paths :
    LET r == remove(files, path, preferErrors)
    IN IsTrue(r.out) =>
         \A q \in Paths :
           IsPrefixOf(pathAsSegments(path), pathAsSegments(q)) =>
             /\ IsNull(readDirectory(r.dir, q, FALSE, preferErrors))
             /\ IsNull(readFile(r.dir, q, FALSE, preferErrors))

\* C4 amended: whenever remove(P) with at least one segment returns true, P
\* and every path that has P as a prefix no longer resolve: readDirectory and
\* readFile on each return null in sentinel mode and raise "does not exist"
\* in preferErrors mode.
C4_RemovedSubtreeGone ==
  \A path \in Paths :
    LET r == remove(files, path, preferErrors)
    IN (IsTrue(r.out) /\ pathAsSegments(path) # <<>>) =>
         \A q \in Paths, returnEntry \in BOOLEAN :
           IsPrefixOf(pathAsSegments(path), pathAsSegments(q)) =>
             /\ ~Resolves(r.dir, pathAsSegments(q))
             /\ NotFoundPerMode(readDirectory(r.dir, q, returnEntry, preferErrors),
                                preferErrors)
             /\ NotFoundPerMode(readFile(r.dir, q, returnEntry, preferErrors),
                                preferErrors)

\* a directory with a descendant is removed, and the descendant's path is asked for
C4_Witness ==
  \E path \in Paths, q \in Paths :
    /\ pathAsSegments(path) # <<>>
    /\ IsPrefixOf(pathAsSegments(path), pathAsSegments(q))
    /\ Len(pathAsSegments(q)) > Len(pathAsSegments(path))
    /\ Resolves(files, pathAsSegments(q))
    /\ LET r == remove(files, path, preferErrors)
       IN /\ IsTrue(r.out)
          /\ NotFoundPerMode(readFile(r.dir, q, FALSE, preferErrors), preferErrors)

\* the listing of the Directory at segs, as Object.keys gives it
Listing(dir, segs) ==
  [i \in 1..Len(Lookup(dir, segs)[1].content) |-> Lookup(dir, segs)[1].content[i].key]

\* C5: remove(P) changes nothing outside the subtree at P: every path that
\* resolved before the call and does not have P as a prefix resolves after it
\* to an entry of the same kind, a File with the same content; and when a
\* non-root P is removed its parent is still a Directory whose listing is the
\* earlier one without P's final segment.
C5_RemoveFrame ==
  \A path \in Paths :
    LET segs == pathAsSegments(path)
        r == remove(files, path, preferErrors)
    IN /\ \A q \in ResolvingPaths(files) :
            ~IsPrefixOf(segs, q) =>
              /\ Resolves(r.dir, q)
              /\ Lookup(r.dir, q)[1].type = Lookup(files, q)[1].type
              /\ IsFileAt(files, q) => Lookup(r.dir, q)[1] = Lookup(files, q)[1]
       /\ (IsTrue(r.out) /\ segs # <<>>) =>
            LET parent == Prefix(segs, Len(segs) - 1)
            IN /\ IsDirectoryAt(r.dir, parent)
               /\ Listing(r.dir, parent)
                    = SelectSeq(Listing(files, parent), LAMBDA k : k # segs[Len(segs)])

\* a directory is removed from beside a sibling File, which stays as it was
C5_Witness ==
  \E path \in Paths, q \in ResolvingPaths(files) :
    LET segs == pathAsSegments(path)
        r == remove(files, path, preferErrors)
    IN /\ IsTrue(r.out)
       /\ Len(segs) = 1
       /\ Len(q) = 1
       /\ q # segs
       /\ IsFileAt(files, q)
       /\ Lookup(r.dir, q) = Lookup(files, q)
       /\ Listing(r.dir, <<>>) = q

\* C6: for a fresh non-empty path P, createDirectory(P) with recursive true
\* returns true, readDirectory(P) on the resulting store returns the empty
\* listing, and every proper prefix of P resolves to a Directory.
C6_CreateDirectoryFreshPath ==
  \A path \in Paths :
    Fresh(files, pathAsSegments(path)) =>
      LET segs == pathAsSegments(path)
          r == createDirectory(files, path, TRUE, preferErrors)
      IN /\ IsTrue(r.out)
         /\ IsKeys(readDirectory(r.dir, path, FALSE, preferErrors), <<>>)
         /\ \A k \in 0..(Len(segs) - 1) : IsDirectoryAt(r.dir, Prefix(segs, k))

\* a populated store in which a fresh two-segment path with a missing parent
\* is created
C6_Witness ==
  \E path \in Paths :
    LET segs == pathAsSegments(path)
        r == createDirectory(files, path, TRUE, preferErrors)
    IN /\ files.content # <<>>
       /\ Len(segs) = 2
       /\ Fresh(files, segs)
       /\ ~Resolves(files, Prefix(segs, 1))
       /\ IsTrue(r.out)
       /\ IsKeys(readDirectory(r.dir, path, FALSE, preferErrors), <<>>)
       /\ IsDirectoryAt(r.dir, Prefix(segs, 1))

\* C7: in every reachable state, for every path P that does not resolve,
\* readFile(P) and readDirectory(P) both return null in sentinel mode and both
\* raise in preferErrors mode.
C7_UnresolvedReadsFail ==
  \A path \in Paths, returnEntry \in BOOLEAN :
    ~Resolves(files, pathAsSegments(path)) =>
      LET f == readFile(files, path, returnEntry, preferErrors)
          d == readDirectory(files, path, returnEntry, preferErrors)
      IN IF preferErrors THEN IsRaise(f) /\ IsRaise(d) ELSE IsNull(f) /\ IsNull(d)

\* a raising store with entries in which a path with an absent parent is read
C7_Witness ==
  \E path \in Paths :
    /\ preferErrors
    /\ files.content # <<>>
    /\ Len(pathAsSegments(path)) = 2
    /\ ~Resolves(files, Prefix(pathAsSegments(path), 1))
    /\ IsRaise(readFile(files, path, FALSE, preferErrors))
    /\ IsRaise(readDirectory(files, path, FALSE, preferErrors))

\* C8: in every reachable state and both modes, readDirectory(rootPath)
\* returns exactly the names of the root's immediate children, or the root
\* Directory itself with returnEntry; it never returns null and never raises.
C8_RootAlwaysReadable ==
  /\ IsKeys(readDirectory(files, rootPath, FALSE, preferErrors),
            [i \in 1..Len(files.content) |-> files.content[i].key])
  /\ IsEntry(readDirectory(files, rootPath, TRUE, preferErrors), files)

\* a raising store whose root holds a File and a Directory, listed in order
C8_Witness ==
  /\ preferErrors
  /\ Len(files.content) = 2
  /\ files.content[1].entry.type = "File"
  /\ files.content[2].entry.type = "Directory"
  /\ IsKeys(readDirectory(files, rootPath, FALSE, preferErrors),
            <<files.content[1].key, files.content[2].key>>)

\* the store right after writeFile("a/b", C) on an empty store
AfterWriteAB ==
  \E content \in Contents :
    files = writeFile(Directory, AsString(<<"a", "/", "b">>), content, TRUE,
                      preferErrors).dir

\* C9 as stated: after writeFile("a/b", C) on an empty store, readDirectory
\* called with the string "" lists ["a"].
C9_EmptyStringListsRoot ==
  AfterWriteAB =>
    IsKeys(readDirectory(files, AsString(sEmpty), FALSE, preferErrors), <<sA>>)

\* C9 amended: after writeFile("a/b", C) on an empty store, readDirectory
\* called with the zero-segment rootPath lists ["a"] and readDirectory("a")
\* lists ["b"]; the string "" is the one segment "", which names no child of
\* the root, so readDirectory("") returns null, or raises "does not exist" in
\* preferErrors mode.
C9_RootPathListsRoot ==
  AfterWriteAB =>
    /\ IsKeys(readDirectory(files, rootPath, FALSE, preferErrors), <<sA>>)
    /\ IsKeys(readDirectory(files, AsString(sA), FALSE, preferErrors), <<sB>>)
    /\ pathAsSegments(AsString(sEmpty)) = <<sEmpty>>
    /\ NotFoundPerMode(readDirectory(files, AsString(sEmpty), FALSE, preferErrors),
                       preferErrors)

\* the store holds exactly a/b, written through the string path "a/b"
C9_Witness ==
  /\ AfterWriteAB
  /\ IsFileAt(files, <<sA, sB>>)
  /\ IsNull(readDirectory(files, AsString(sEmpty), FALSE, preferErrors))

\* what C10 says of the store r left by writeFile(path), but for the outcome
\* of readDirectory(path)
IntermediatesCreated(r, segs) ==
  /\ \A k \in 1..(Len(segs) - 1) :
       /\ IsDirectoryAt(r.dir, Prefix(segs, k))
       /\ Listing(r.dir, Prefix(segs, k)) = <<segs[k + 1]>>
  /\ \E i \in 1..Len(Listing(r.dir, <<>>)) : Listing(r.dir, <<>>)[i] = segs[1]

\* C10 as stated: after a successful recursive writeFile(P, C) where P's
\* first segment was absent, every non-empty proper prefix of P is a
\* Directory listing exactly the next segment, the root lists P's first
\* segment, and readDirectory(P) returns null.
C10_WriteCreatesParentsReadNull ==
  \A path \in Paths, content \in Contents \cup {Undefined} :
    LET segs == pathAsSegments(path)
        r == writeFile(files, path, content, TRUE, preferErrors)
    IN (segs # <<>> /\ ~Resolves(files, Prefix(segs, 1)) /\ IsTrue(r.out)) =>
         /\ IntermediatesCreated(r, segs)
         /\ IsNull(readDirectory(r.dir, path, FALSE, preferErrors))

\* C10 amended: the same, with readDirectory(P) on the file path failing as
\* the mode reports it: null in sentinel mode, raising "is a file" in
\* preferErrors mode.
C10_WriteCreatesParents ==
  \A path \in Paths, content \in Contents \cup {Undefined} :
    LET segs == pathAsSegments(path)
        r == writeFile(files, path, content, TRUE, preferErrors)
        d == readDirectory(r.dir, path, FALSE, preferErrors)
    IN (segs # <<>> /\ ~Resolves(files, Prefix(segs, 1)) /\ IsTrue(r.out)) =>
         /\ IntermediatesCreated(r, segs)
         /\ IsFileAt(r.dir, segs)
         /\ IF preferErrors THEN IsRaise(d) /\ d.val = "is a file" ELSE IsNull(d)

\* a raising store with an entry, in which a three-segment path under an
\* absent first segment is written
C10_Witness ==
  \E path \in Paths :
    LET segs == pathAsSegments(path)
        r == writeFile(files, path, "c1", TRUE, preferErrors)
    IN /\ preferErrors
       /\ files.content # <<>>
       /\ Len(segs) = 3
       /\ ~Resolves(files, Prefix(segs, 1))
       /\ IsTrue(r.out)
       /\ IntermediatesCreated(r, segs)
       /\ IsRaise(readDirectory(r.dir, path, FALSE, preferErrors))

\* some segment of segs is missing from the Directory the segments before it
\* lead to
SomeSegmentAbsent(dir, segs) ==
  \E k \in 1..Len(segs) :
    /\ IsDirectoryAt(dir, Prefix(segs, k - 1))
    /\ ~Resolves(dir, Prefix(segs, k))

FileAmongPrefixes(dir, segs, n) ==
  \E k \in 1..n : IsFileAt(dir, Prefix(segs, k))

\* C12: in every reachable state, writeFile(P, C) on a path with a File at a
\* proper prefix, and createDirectory(P) on a path with a File at a prefix or
\* at P itself, fail (false, or an exception in preferErrors mode) and leave
\* the whole tree, the File and its content included, as it was.
C12_FileNeverTraversed ==
  \A path \in Paths, recursive \in BOOLEAN :
    LET segs == pathAsSegments(path)
    IN /\ FileAmongPrefixes(files, segs, Len(segs) - 1) =>
            \A content \in Contents \cup {Undefined} :
              LET r == writeFile(files, path, content, recursive, preferErrors)
              IN /\ IF preferErrors THEN IsRaise(r.out) ELSE IsFalse(r.out)
                 /\ r.dir = files
       /\ FileAmongPrefixes(files, segs, Len(segs)) =>
            LET r == createDirectory(files, path, recursive, preferErrors)
            IN /\ IF preferErrors THEN IsRaise(r.out) ELSE IsFalse(r.out)
               /\ r.dir = files

\* a File with content sits at the first segment of a two-segment path;
\* writing and creating below it are refused and the File keeps its content
C12_Witness ==
  \E path \in Paths, content \in Contents :
    LET segs == pathAsSegments(path)
        w == writeFile(files, path, "c2", TRUE, preferErrors)
        c == createDirectory(files, path, TRUE, preferErrors)
    IN /\ Len(segs) = 2
       /\ IsFileAt(files, Prefix(segs, 1))
       /\ Lookup(files, Prefix(segs, 1))[1].content = content
       /\ FailsPerMode(w.out, preferErrors)
       /\ FailsPerMode(c.out, preferErrors)
       /\ IsFileAt(w.dir, Prefix(segs, 1))
       /\ Lookup(w.dir, Prefix(segs, 1))[1].content = content
       /\ Lookup(c.dir, Prefix(segs, 1))[1].content = content

\* C13: in every reachable state, writeFile(P, C) on a path of one or more
\* segments that resolves to a Directory fails with "is a directory" (false
\* in sentinel mode, an exception in preferErrors mode) and leaves the tree
\* unchanged.
C13_WriteOnDirectoryFails ==
  \A path \in Paths, content \in Contents :
    LET segs == pathAsSegments(path)
        r == writeFile(files, path, content, TRUE, preferErrors)
    IN (segs # <<>> /\ IsDirectoryAt(files, segs)) =>
         /\ IF preferErrors
            THEN IsRaise(r.out) /\ r.out.val = "is a directory"
            ELSE IsFalse(r.out)
         /\ r.dir = files

\* every segment name a path of the inputs can carry, the empty one included
AllNames == SegNames \cup {sEmpty}

\* the non-empty paths that resolve in dir, found by looking each one up
PathsBelowRoot(dir) ==
  {segs \in SeqsUpTo(AllNames, MaxEntries + 1) : segs # <<>> /\ Resolves(dir, segs)}

\* C14: in every reachable state walk() yields a finite sequence of (path,
\* entry) pairs in which every path is non-empty and resolves to the entry
\* yielded with it, every entry below the root appears exactly once, and the
\* descendants of a yielded Directory are exactly the pairs that follow it
\* directly (depth-first pre-order).  On the empty store, after writing a
\* three-segment path foo/bar/baz, walk yields exactly ([foo], Directory),
\* ([foo,bar], Directory), ([foo,bar,baz], File).
C14_WalkPreOrder ==
  LET w == walk(files, <<>>)
      below(i) == {j \in 1..Len(w) : j # i /\ IsPrefixOf(w[i].path, w[j].path)}
  IN /\ \A i \in 1..Len(w) :
          /\ w[i].path # <<>>
          /\ Lookup(files, w[i].path) = <<w[i].entry>>
          /\ below(i) = (i + 1)..(i + Cardinality(below(i)))
          /\ w[i].entry.type = "File" => below(i) = {}
     /\ \A i, j \in 1..Len(w) : w[i].path = w[j].path => i = j
     /\ {w[i].path : i \in 1..Len(w)} = PathsBelowRoot(files)
     /\ files = Directory =>
          \A path \in Paths, content \in Contents :
            LET segs == pathAsSegments(path)
                r == writeFile(files, path, content, TRUE, preferErrors)
                y == walk(r.dir, <<>>)
            IN Len(segs) = 3 =>
                 /\ IsTrue(r.out)
                 /\ [i \in 1..Len(y) |-> <<y[i].path, y[i].entry.type>>]
                      = << <<Prefix(segs, 1), "Directory">>,
                           <<Prefix(segs, 2), "Directory">>,
                           <<segs, "File">> >>

\* a Directory holding a File: walk yields the Directory, then the File
C14_Witness ==
  LET w == walk(files, <<>>)
  IN /\ Len(w) = 2
     /\ w[1].entry.type = "Directory"
     /\ w[2].entry.type = "File"
     /\ Len(w[1].path) = 1
     /\ Len(w[2].path) = 2
     /\ IsPrefixOf(w[1].path, w[2].path)

\* C15: in every reachable state, if createDirectory(P) returns true, then
\* createDirectory(P) called again on the resulting store returns true and
\* leaves that store's tree as it is.
C15_CreateDirectoryIdempotent ==
  \A path \in Paths, recursive \in BOOLEAN :
    LET first == createDirectory(files, path, recursive, preferErrors)
        second == createDirectory(first.dir, path, recursive, preferErrors)
    IN IsTrue(first.out) =>
         /\ IsTrue(second.out)
         /\ second.dir = first.dir

\* a first call that creates two Directories beside an existing entry,
\* followed by a second call that succeeds and changes nothing
C15_Witness ==
  \E path \in Paths :
    LET segs == pathAsSegments(path)
        first == createDirectory(files, path, TRUE, preferErrors)
        second == createDirectory(first.dir, path, TRUE, preferErrors)
    IN /\ files.content # <<>>
       /\ Len(segs) = 2
       /\ ~Resolves(files, Prefix(segs, 1))
       /\ IsTrue(first.out)
       /\ IsDirectoryAt(first.dir, segs)
       /\ IsTrue(second.out)
       /\ second.dir = first.dir

\* readFile's failure on a File without content: null, or its exception
NoContentPerMode(out, pe) ==
  IF pe THEN IsRaise(out) /\ out.val = "has no content" ELSE IsNull(out)

\* C16: in every reachable state, writeFile(P) without a content on a fresh
\* path returns true and puts a File at P; and whenever the File at a path P
\* has no content, P's last segment is in the listing of its parent while
\* readFile(P) fails with returnEntry false and true: it returns null, as
\* for a path that is not found, or raises "has no content" in preferErrors
\* mode.  A File that has a content is read back with it.
C16_FileWithoutContentUnreadable ==
  \A path \in Paths, returnEntry \in BOOLEAN :
    LET segs == pathAsSegments(path)
        r == writeFile(files, path, Undefined, TRUE, preferErrors)
        unreadable(dir) ==
          /\ IsFileAt(dir, segs)
          /\ LET ls == readDirectory(dir, AsSegments(Prefix(segs, Len(segs) - 1)),
                                      FALSE, preferErrors)
             IN /\ ls.kind = "keys"
                /\ \E i \in 1..Len(ls.val) : ls.val[i] = segs[Len(segs)]
          /\ NoContentPerMode(readFile(dir, path, returnEntry, preferErrors), preferErrors)
    IN /\ Fresh(files, segs) =>
            /\ IsTrue(r.out)
            /\ Lookup(r.dir, segs)[1].content = Undefined
            /\ unreadable(r.dir)
       /\ IsFileAt(files, segs) =>
            IF Lookup(files, segs)[1].content = Undefined
            THEN unreadable(files)
            ELSE LET out == readFile(files, path, returnEntry, preferErrors)
                 IN IF returnEntry
                    THEN IsEntry(out, Lookup(files, segs)[1])
                    ELSE IsContent(out, Lookup(files, segs)[1].content)

\* a File without content below a Directory, listed there and unreadable
C16_Witness ==
  \E path \in Paths :
    LET segs == pathAsSegments(path)
    IN /\ Len(segs) = 2
       /\ IsFileAt(files, segs)
       /\ Lookup(files, segs)[1].content = Undefined
       /\ IsKeys(readDirectory(files, AsSegments(Prefix(segs, 1)), FALSE, preferErrors),
                 <<segs[2]>>)
       /\ NoContentPerMode(readFile(files, path, TRUE, preferErrors), preferErrors)
       /\ NoContentPerMode(readFile(files, path, FALSE, preferErrors), preferErrors)

SameButForReporting(s, r) ==
  /\ ~IsRaise(s)
  /\ IsRaise(r) <=> (IsNull(s) \/ IsFalse(s))
  /\ ~IsRaise(r) => (r.kind = s.kind /\ r.val = s.val)

\* C18: from every reachable tree, each call made with preferErrors false
\* and with preferErrors true leaves the same tree behind, never raises in
\* sentinel mode, raises in preferErrors mode exactly when sentinel mode
\* returns null or false, and otherwise returns the same result.  Both
\* stores start empty, so after equal call sequences their trees are equal.
C18_ModeOnlyChangesReporting ==
  /\ \A path \in Paths, flag \in BOOLEAN :
       /\ SameButForReporting(readDirectory(files, path, flag, FALSE),
                              readDirectory(files, path, flag, TRUE))
       /\ SameButForReporting(readFile(files, path, flag, FALSE),
                              readFile(files, path, flag, TRUE))
       /\ LET s == createDirectory(files, path, flag, FALSE)
              r == createDirectory(files, path, flag, TRUE)
          IN SameButForReporting(s.out, r.out) /\ s.dir = r.dir
       /\ LET s == remove(files, path, FALSE)
              r == remove(files, path, TRUE)
          IN SameButForReporting(s.out, r.out) /\ s.dir = r.dir
       /\ \A content \in Contents \cup {Undefined} :
            LET s == writeFile(files, path, content, flag, FALSE)
                r == writeFile(files, path, content, flag, TRUE)
            IN SameButForReporting(s.out, r.out) /\ s.dir = r.dir
       /\ \A callback \in Callbacks :
            LET s == writeFileWithCallback(files, path, callback, flag, FALSE)
                r == writeFileWithCallback(files, path, callback, flag, TRUE)
            IN SameButForReporting(s.out, r.out) /\ s.dir = r.dir

\* a tree with a File on which, for one path, a write below the File and a
\* listing of the File fail in both modes, false or null against an
\* exception, while the read of the File gives the same content in both
C18_Witness ==
  \E path \in Paths, below \in Paths :
    /\ IsFileAt(files, pathAsSegments(path))
    /\ IsPrefixOf(pathAsSegments(path), pathAsSegments(below))
    /\ IsFalse(writeFile(files, below, "c1", TRUE, FALSE).out)
    /\ IsRaise(writeFile(files, below, "c1", TRUE, TRUE).out)
    /\ IsNull(readDirectory(files, path, FALSE, FALSE))
    /\ IsRaise(readDirectory(files, path, FALSE, TRUE))
    /\ readFile(files, path, FALSE, FALSE).kind = "content"
    /\ readFile(files, path, FALSE, TRUE) = readFile(files, path, FALSE, FALSE)

\* entry is a File, which holds a content and no entries, or a Directory
\* whose content maps each name once to an entry that is well formed
RECURSIVE WellFormed(_)
WellFormed(entry) ==
  IF entry.type = "File"
  THEN /\ DOMAIN entry = {"type", "name", "content", "data"}
       /\ entry.content \in Contents \cup {Undefined}
  ELSE /\ entry.type = "Directory"
       /\ DOMAIN entry = {"type", "content", "data"}
       /\ \A i, j \in 1..Len(entry.content) :
            entry.content[i].key = entry.content[j].key => i = j
       /\ \A i \in 1..Len(entry.content) : WellFormed(entry.content[i].entry)

\* C19: in every reachable state, that is after any sequence of
\* createDirectory, writeFile, writeFileWithCallback, remove and read calls,
\* successful or failing, the root is a Directory, every entry is a File
\* without entries of its own or a Directory of such entries, and every
\* proper prefix of the path of an entry below the root is a Directory.
C19_TreeShape ==
  /\ files.type = "Directory"
  /\ WellFormed(files)
  /\ \A i \in 1..Len(walk(files, <<>>)) :
       \A k \in 0..(Len(walk(files, <<>>)[i].path) - 1) :
         IsDirectoryAt(files, Prefix(walk(files, <<>>)[i].path, k))

\* a File below a Directory, after a write below that File was refused
C19_Witness ==
  \E path \in Paths :
    LET segs == pathAsSegments(path)
        r == writeFile(files, AsSegments(Append(segs, sA)), "c1", TRUE, preferErrors)
    IN /\ Len(segs) = 2
       /\ IsDirectoryAt(files, Prefix(segs, 1))
       /\ IsFileAt(files, segs)
       /\ FailsPerMode(r.out, preferErrors)
       /\ r.dir = files
       /\ WellFormed(files)

\* every path of `old`, the paths that resolve in `before`, resolves in
\* `after` to an entry of the same kind, and a Directory of `before` has all
\* its names in `after`
NothingReplaced(old, before, after) ==
  \A segs \in old :
    LET was == Lookup(before, segs)
        is == Lookup(after, segs)
    IN /\ is # <<>>
       /\ is[1].type = was[1].type
       /\ was[1].type = "Directory" =>
            {was[1].content[i].key : i \in 1..Len(was[1].content)}
              \subseteq {is[1].content[j].key : j \in 1..Len(is[1].content)}

\* C20: in every reachable state, after createDirectory, writeFile or
\* writeFileWithCallback with any arguments, successful or failing, every
\* path that resolved before the call resolves to an entry of the same kind
\* and every Directory still lists every name it listed; a call after which
\* a resolving path no longer resolves is a remove.
C20_NeverReplacesExisting ==
  LET old == PathsBelowRoot(files) \cup {<<>>}
  IN \A path \in Paths, recursive \in BOOLEAN :
       /\ NothingReplaced(old, files,
            createDirectory(files, path, recursive, preferErrors).dir)
       /\ \A content \in Contents \cup {Undefined} :
            NothingReplaced(old, files,
              writeFile(files, path, content, recursive, preferErrors).dir)
       /\ \A callback \in Callbacks :
            NothingReplaced(old, files,
              writeFileWithCallback(files, path, callback, recursive, preferErrors).dir)

\* a Directory with one child gains a second one and keeps the first, and
\* remove of that Directory makes its path stop resolving
C20_Witness ==
  \E path \in Paths, new \in Paths :
    LET segs == pathAsSegments(path)
        r == createDirectory(files, new, TRUE, preferErrors)
    IN /\ Len(segs) = 1
       /\ IsDirectoryAt(files, segs)
       /\ Len(Listing(files, segs)) = 1
       /\ Len(pathAsSegments(new)) = 2
       /\ IsPrefixOf(segs, pathAsSegments(new))
       /\ ~Resolves(files, pathAsSegments(new))
       /\ IsTrue(r.out)
       /\ Len(Listing(r.dir, segs)) = 2
       /\ Listing(r.dir, segs)[1] = Listing(files, segs)[1]
       /\ NothingReplaced(PathsBelowRoot(files), files, r.dir)
       /\ ~Resolves(remove(files, path, preferErrors).dir, segs)

\* C21: in every reachable state and for both values of recursive,
\* createDirectory(P) returns true exactly when, on the store the call
\* leaves, P resolves to a Directory and readDirectory(P) lists it; in every
\* other case it returns false, or raises in preferErrors mode.
C21_TrueIffDirectoryAfterwards ==
  \A path \in Paths, recursive \in BOOLEAN :
    LET segs == pathAsSegments(path)
        r == createDirectory(files, path, recursive, preferErrors)
        ls == readDirectory(r.dir, path, FALSE, preferErrors)
    IN /\ IsTrue(r.out) <=> IsDirectoryAt(r.dir, segs)
       /\ IsTrue(r.out) <=> IsKeys(ls, Listing(r.dir, segs))
       /\ ~IsTrue(r.out) =>
            /\ IF preferErrors THEN IsRaise(r.out) ELSE IsFalse(r.out)
            /\ FailsPerMode(ls, preferErrors)

\* beside a File: createDirectory of the File's path is refused and the
\* path is still no Directory, while a fresh two-segment path is created
\* and listed
C21_Witness ==
  \E path \in Paths, new \in Paths :
    LET r == createDirectory(files, path, TRUE, preferErrors)
        n == createDirectory(files, new, TRUE, preferErrors)
    IN /\ IsFileAt(files, pathAsSegments(path))
       /\ FailsPerMode(r.out, preferErrors)
       /\ ~IsDirectoryAt(r.dir, pathAsSegments(path))
       /\ Len(pathAsSegments(new)) = 2
       /\ ~Resolves(files, Prefix(pathAsSegments(new), 1))
       /\ IsTrue(n.out)
       /\ IsKeys(readDirectory(n.dir, new, FALSE, preferErrors), <<>>)

\* C22: in every reachable state, writeFile(P, C, {recursive: false}) on a
\* path whose proper prefixes all resolve to Directories and whose final
\* segment is absent returns true and leaves a File at P with content C.
C22_NonRecursiveWriteCreatesFile ==
  \A path \in Paths, content \in Contents :
    LET segs == pathAsSegments(path)
        r == writeFile(files, path, content, FALSE, preferErrors)
    IN (/\ segs # <<>>
        /\ IsDirectoryAt(files, Prefix(segs, Len(segs) - 1))
        /\ ~Resolves(files, segs)) =>
         /\ IsTrue(r.out)
         /\ IsFileAt(r.dir, segs)
         /\ IsContent(readFile(r.dir, path, FALSE, preferErrors), content)

\* C23: in every reachable state, remove(P) on a path of one or more
\* segments with a segment, intermediate or final, absent from its parent
\* Directory fails with "does not exist" (false in sentinel mode, the
\* exception in preferErrors mode) and leaves the tree unchanged.
C23_RemoveOfAbsentFails ==
  \A path \in Paths :
    LET segs == pathAsSegments(path)
        r == remove(files, path, preferErrors)
    IN SomeSegmentAbsent(files, segs) =>
         /\ IF preferErrors
            THEN IsRaise(r.out) /\ r.out.val = "does not exist"
            ELSE IsFalse(r.out)
         /\ r.dir = files

\* under an existing Directory the final segment is absent for one path,
\* and for another the first segment is; both removals are refused
C23_Witness ==
  \E path \in Paths, other \in Paths :
    LET segs == pathAsSegments(path)
    IN /\ Len(segs) = 2
       /\ IsDirectoryAt(files, Prefix(segs, 1))
       /\ ~Resolves(files, segs)
       /\ FailsPerMode(remove(files, path, preferErrors).out, preferErrors)
       /\ remove(files, path, preferErrors).dir = files
       /\ Len(pathAsSegments(other)) = 2
       /\ ~Resolves(files, Prefix(pathAsSegments(other), 1))
       /\ FailsPerMode(remove(files, other, preferErrors).out, preferErrors)

\* C24: in every reachable state, remove called with the zero-segment root
\* path leaves the tree as it is: the root is still a Directory and every
\* path that resolved before the call resolves to the same entry after it.
C24_RootNotRemovable ==
  \A path \in Paths :
    pathAsSegments(path) = <<>> =>
      LET r == remove(files, path, preferErrors)
      IN /\ r.dir = files
         /\ IsDirectoryAt(r.dir, <<>>)
         /\ \A segs \in PathsBelowRoot(files) :
              Lookup(r.dir, segs) = Lookup(files, segs)

\* a store holding a Directory with an entry in it, on which remove of the
\* root path changes nothing
C24_Witness ==
  LET r == remove(files, rootPath, preferErrors)
  IN /\ \E segs \in PathsBelowRoot(files) : Len(segs) = 2
     /\ r.dir = files
     /\ PathsBelowRoot(r.dir) = PathsBelowRoot(files)

\* C25: in every reachable state and for both values of returnEntry,
\* readDirectory(P) fails on a File (null, or the exception "is a file")
\* and readFile(P) fails on a Directory, the root included (null, or the
\* exception "is a directory"); readDirectory(P) succeeds exactly when P
\* resolves to a Directory and readFile(P) succeeds exactly when P resolves
\* to a File that has a content.
C25_ReadsEnforceKind ==
  \A path \in Paths, returnEntry \in BOOLEAN :
    LET segs == pathAsSegments(path)
        ls == readDirectory(files, path, returnEntry, preferErrors)
        rd == readFile(files, path, returnEntry, preferErrors)
    IN /\ IsFileAt(files, segs) =>
            IF preferErrors THEN IsRaise(ls) /\ ls.val = "is a file" ELSE IsNull(ls)
       /\ IsDirectoryAt(files, segs) =>
            IF preferErrors THEN IsRaise(rd) /\ rd.val = "is a directory" ELSE IsNull(rd)
       /\ ~FailsPerMode(ls, preferErrors) <=> IsDirectoryAt(files, segs)
       /\ ~FailsPerMode(rd, preferErrors) <=>
            (IsFileAt(files, segs) /\ Lookup(files, segs)[1].content # Undefined)
       /\ ls.kind \in {"keys", "entry", "null", "raise"}
       /\ rd.kind \in {"content", "entry", "null", "raise"}

\* a Directory holding a File with content: each read succeeds on its own
\* kind and fails on the other, and readFile fails on the root
C25_Witness ==
  \E path \in Paths :
    LET segs == pathAsSegments(path)
        parent == AsSegments(Prefix(segs, 1))
    IN /\ Len(segs) = 2
       /\ IsFileAt(files, segs)
       /\ readFile(files, path, FALSE, preferErrors).kind = "content"
       /\ FailsPerMode(readDirectory(files, path, FALSE, preferErrors), preferErrors)
       /\ IsKeys(readDirectory(files, parent, FALSE, preferErrors), <<segs[2]>>)
       /\ FailsPerMode(readFile(files, parent, FALSE, preferErrors), preferErrors)
       /\ FailsPerMode(readFile(files, rootPath, TRUE, preferErrors), preferErrors)

\* C26: in every reachable state, a successful readDirectory(P) without
\* returnEntry returns each name once, and a name is in the listing exactly
\* when P followed by that name resolves to an entry.
C26_ListingIsImmediateChildren ==
  \A path \in Paths :
    LET segs == pathAsSegments(path)
        ls == readDirectory(files, path, FALSE, preferErrors)
    IN ls.kind = "keys" =>
         /\ \A i, j \in 1..Len(ls.val) : ls.val[i] = ls.val[j] => i = j
         /\ \A i \in 1..Len(ls.val) : ls.val[i] \in AllNames
         /\ \A name \in AllNames :
              (\E i \in 1..Len(ls.val) : ls.val[i] = name)
                <=> Resolves(files, Append(segs, name))

\* the root holds one Directory that holds one entry of another name: the
\* root's listing has the Directory's name and not the name below it
C26_Witness ==
  \E segs \in PathsBelowRoot(files) :
    /\ Len(segs) = 2
    /\ segs[1] # segs[2]
    /\ IsKeys(readDirectory(files, rootPath, FALSE, preferErrors), <<segs[1]>>)
    /\ IsKeys(readDirectory(files, AsSegments(Prefix(segs, 1)), FALSE, preferErrors),
              <<segs[2]>>)

\* segs.join("/")
RECURSIVE Join(_)
Join(segs) ==
  IF segs = <<>> THEN <<>>
  ELSE IF Len(segs) = 1 THEN segs[1]
  ELSE segs[1] \o <<"/">> \o Join(Tail(segs))

\* two calls end alike: same outcome, same tree
SameCall(s, r) ==
  /\ s.out.kind = r.out.kind
  /\ s.out.val = r.out.val
  /\ s.dir = r.dir

\* a read as a call that leaves the tree alone
ReadCall(dir, out) == [dir |-> dir, out |-> out]

\* C27: the segments of a string path S are its literal split on "/": at
\* least one segment, none holding a "/", which joined by "/" give S again,
\* so "a//b" gives [a, "", b] and "/a" gives ["", a]; a pre-segmented path is
\* used as it is; and in every reachable state each operation called with S
\* has the outcome and the effect it has when called with those segments,
\* an empty segment naming an ordinary child.
C27_LiteralSplit ==
  /\ \A segs \in SegInputs : pathAsSegments(AsSegments(segs)) = segs
  /\ pathAsSegments(AsString(<<"a", "/", "/", "b">>)) = <<sA, sEmpty, sB>>
  /\ pathAsSegments(AsString(<<"/", "a">>)) = <<sEmpty, sA>>
  /\ \A str \in StrInputs :
       LET s == AsString(str)
           segs == pathAsSegments(s)
           p == AsSegments(segs)
       IN /\ Len(segs) >= 1
          /\ \A i \in 1..Len(segs) : \A j \in 1..Len(segs[i]) : segs[i][j] # "/"
          /\ Join(segs) = str
          /\ \A flag \in BOOLEAN :
               /\ SameCall(createDirectory(files, s, flag, preferErrors),
                           createDirectory(files, p, flag, preferErrors))
               /\ SameCall(ReadCall(files, readDirectory(files, s, flag, preferErrors)),
                           ReadCall(files, readDirectory(files, p, flag, preferErrors)))
               /\ SameCall(ReadCall(files, readFile(files, s, flag, preferErrors)),
                           ReadCall(files, readFile(files, p, flag, preferErrors)))
               /\ \A content \in Contents \cup {Undefined} :
                    SameCall(writeFile(files, s, content, flag, preferErrors),
                             writeFile(files, p, content, flag, preferErrors))
               /\ \A callback \in Callbacks :
                    SameCall(writeFileWithCallback(files, s, callback, flag, preferErrors),
                             writeFileWithCallback(files, p, callback, flag, preferErrors))
          /\ SameCall(remove(files, s, preferErrors), remove(files, p, preferErrors))
          /\ LET r == createDirectory(files, s, TRUE, preferErrors)
             IN IsTrue(r.out) => IsDirectoryAt(r.dir, Split(str))

\* a store with an entry on which createDirectory("/a") makes a Directory
\* named by the empty string at the root and a Directory "a" in it
C27_Witness ==
  LET r == createDirectory(files, AsString(<<"/", "a">>), TRUE, preferErrors)
  IN /\ files.content # <<>>
     /\ ~Resolves(files, <<sEmpty>>)
     /\ IsTrue(r.out)
     /\ IsDirectoryAt(r.dir, <<sEmpty>>)
     /\ IsDirectoryAt(r.dir, <<sEmpty, sA>>)
     /\ IsKeys(readDirectory(r.dir, AsString(<<"/", "a">>), FALSE, preferErrors), <<>>)

\* the names of the entries below dir
Names(dir) ==
  LET w == walk(dir, <<>>)
  IN {w[i].path[Len(w[i].path)] : i \in 1..Len(w)}

\* the set of the segments of segs
SegmentsOf(segs) == {segs[i] : i \in 1..Len(segs)}

\* C28 as stated: in every reachable state every path yielded by walk() is
\* non-empty and none of its segments is the empty string.
C28_NoEmptyName ==
  \A i \in 1..Len(walk(files, <<>>)) :
    /\ walk(files, <<>>)[i].path # <<>>
    /\ \A k \in 1..Len(walk(files, <<>>)[i].path) : walk(files, <<>>)[i].path[k] # sEmpty

\* C28 as amended: in every reachable state every path yielded by walk()
\* is non-empty, and after any call every name in the tree was a name
\* before the call or is a segment of the call's path (for a string, of its
\* literal split); so an entry is named by the empty string only after a
\* call whose path has an empty segment.
C28_NamesComeFromPaths ==
  LET old == Names(files)
      named(r, segs) == Names(r.dir) \subseteq (old \cup SegmentsOf(segs))
      calls(p, segs) ==
        /\ named(remove(files, p, preferErrors), segs)
        /\ \A recursive \in BOOLEAN :
             /\ named(createDirectory(files, p, recursive, preferErrors), segs)
             /\ \A content \in Contents \cup {Undefined} :
                  named(writeFile(files, p, content, recursive, preferErrors), segs)
             /\ \A callback \in Callbacks :
                  named(writeFileWithCallback(files, p, callback, recursive, preferErrors), segs)
  IN /\ \A i \in 1..Len(walk(files, <<>>)) : walk(files, <<>>)[i].path # <<>>
     /\ \A segs \in SegInputs : calls(AsSegments(segs), segs)
     /\ \A str \in StrInputs : calls(AsString(str), Split(str))

\* a store with an entry named by the empty string, on which a call with
\* the segments [a, b] adds no further empty name
C28_Witness ==
  LET r == createDirectory(files, AsSegments(<<sA, sB>>), TRUE, preferErrors)
  IN /\ Names(files) = {sEmpty}
     /\ IsTrue(r.out)
     /\ Names(r.dir) = {sEmpty, sA, sB}

\* C29: in every reachable state, a writeFileWithCallback(P, f) that returns
\* true leaves at P the File with f applied once to it, the newly created
\* File when P was absent, and a call that does not return true fails per
\* mode and leaves the tree without any effect of f.
C29_CallbackOncePerSuccess ==
  \A path \in Paths, callback \in Callbacks, recursive \in BOOLEAN :
    LET segs == pathAsSegments(path)
        r == writeFileWithCallback(files, path, callback, recursive, preferErrors)
    IN IF IsTrue(r.out)
       THEN /\ IsFileAt(r.dir, segs)
            /\ Lookup(r.dir, segs)[1] =
                 Call(callback, IF IsFileAt(files, segs)
                                THEN Lookup(files, segs)[1]
                                ELSE File(segs[Len(segs)], Undefined))
       ELSE /\ FailsPerMode(r.out, preferErrors)
            /\ r.dir = files

\* a call ended all or nothing: it returned true, or it failed per mode
\* and the tree is the tree before it
AllOrNothing(before, r, pe) ==
  IF IsTrue(r.out) THEN TRUE
  ELSE /\ IF pe THEN IsRaise(r.out) ELSE IsFalse(r.out)
       /\ r.dir = before

\* C30: in every reachable state, for every path and recursive setting, a
\* createDirectory, writeFile or writeFileWithCallback that returns false or
\* raises leaves the tree identical to the tree before the call; hence a
\* call that has changed the tree, by creating a Directory on the way,
\* returns true.
C30_FailingMutationsChangeNothing ==
  \A path \in Paths, recursive \in BOOLEAN :
    /\ AllOrNothing(files, createDirectory(files, path, recursive, preferErrors),
                    preferErrors)
    /\ \A content \in Contents \cup {Undefined} :
         AllOrNothing(files, writeFile(files, path, content, recursive, preferErrors),
                      preferErrors)
    /\ \A callback \in Callbacks :
         AllOrNothing(files,
           writeFileWithCallback(files, path, callback, recursive, preferErrors),
           preferErrors)

\* on a store with an entry, a two-segment path under an absent first
\* segment: the non-recursive write fails and changes nothing, the
\* recursive one creates the Directory and goes on to return true
C30_Witness ==
  \E path \in Paths :
    LET segs == pathAsSegments(path)
        strict == writeFile(files, path, "c1", FALSE, preferErrors)
        r == writeFile(files, path, "c1", TRUE, preferErrors)
    IN /\ files.content # <<>>
       /\ Len(segs) = 2
       /\ ~Resolves(files, Prefix(segs, 1))
       /\ FailsPerMode(strict.out, preferErrors)
       /\ strict.dir = files
       /\ IsTrue(r.out)
       /\ IsDirectoryAt(r.dir, Prefix(segs, 1))
       /\ r.dir # files

\* C31: in every reachable state, for every path, the root path and the
\* paths of Directories included, and for both values of recursive, a
\* writeFile(P, C) with a defined content C that returns true leaves a File
\* at P, and readFile(P) on the resulting store returns C.
C31_TrueMeansFileWritten ==
  \A path \in Paths, content \in Contents, recursive \in BOOLEAN :
    LET segs == pathAsSegments(path)
        r == writeFile(files, path, content, recursive, preferErrors)
    IN IsTrue(r.out) =>
         /\ IsFileAt(r.dir, segs)
         /\ IsContent(readFile(r.dir, path, FALSE, preferErrors), content)

====
